---------------------------- MODULE Spec2Model ----------------------------
(***************************************************************************)
(* hdlparse Verilog documentation parser: the lexer run over the           *)
(* verilog_tokens rule table and the parse_verilog builder loop.           *)
(*                                                                         *)
(* A text is a sequence of one-character strings.  Offsets are Python's:   *)
(* offset p is the number of characters before the cursor, so the          *)
(* character at offset p is t[p+1].  A Python string value (a captured     *)
(* group, a name, a type) is a sequence of characters; Python's None in a  *)
(* string-valued place is the value None below.                            *)
(***************************************************************************)
EXTENDS Integers, Sequences, FiniteSets, TLC

VARIABLES text, call, status, pos, stack, b, heap, emitted, result, first,
          object_cache, files, calls

\* the state of a VerilogExtractor and of the files it reads
xvars == <<object_cache, files, calls>>

vars == <<text, call, status, pos, stack, b, heap, emitted, result, first, xvars>>

None == <<"None">>

EOF == ""

\* Bounds of the model
MaxChunks == 4

MaxCalls == 2

---------------------------------------------------------------------------
(* Character classes of the regular expressions *)

\* \s of a str pattern compiled without re.ASCII, and the characters
\* str.strip() removes: the white space of Unicode.  A character here is a
\* one-character string and strings hold the code points U+0000..U+00FF,
\* whose white space is U+0009..U+000D, U+001C..U+001F, U+0020, U+0085 and
\* U+00A0; the last line below lists U+000B, U+001C..U+001F, U+0085, U+00A0
SpaceChars ==
  { " ", "\t", "\n", "\r", "\f",
    "", "", "", "", "", "", " " }

\* [a-zA-Z0-9_]
AsciiWordChars == {"a","b","c","d","e","f","g","h","i","j","k","l","m","n","o","p","q","r","s","t","u","v","w","x","y","z","A","B","C","D","E","F","G","H","I","J","K","L","M","N","O","P","Q","R","S","T","U","V","W","X","Y","Z","0","1","2","3","4","5","6","7","8","9","_"}

\* \w of a str pattern compiled without re.ASCII: the alphanumerics of
\* Unicode and the underscore; beyond ASCII, the letters and digits of
\* U+0080..U+00FF
WordChars ==
  AsciiWordChars \cup
  { "ª", "²", "³", "µ", "¹", "º", "¼", "½", "¾", "À", "Á", "Â",
    "Ã", "Ä", "Å", "Æ", "Ç", "È", "É", "Ê", "Ë", "Ì", "Í", "Î",
    "Ï", "Ð", "Ñ", "Ò", "Ó", "Ô", "Õ", "Ö", "Ø", "Ù", "Ú", "Û",
    "Ü", "Ý", "Þ", "ß", "à", "á", "â", "ã", "ä", "å", "æ", "ç",
    "è", "é", "ê", "ë", "ì", "í", "î", "ï", "ð", "ñ", "ò", "ó",
    "ô", "õ", "ö", "ø", "ù", "ú", "û", "ü", "ý", "þ", "ÿ" }

IsSpace(c) == c \in SpaceChars

IsWord(c) == c \in WordChars

At(t, p) == IF p >= 0 /\ p < Len(t) THEN t[p + 1] ELSE EOF

\* text[p:q]
Sub(t, p, q) == SubSeq(t, p + 1, q)

\* the literal l stands at offset p
Lit(t, p, l) == /\ p + Len(l) <= Len(t)
                /\ \A i \in 1..Len(l) : t[p + i] = l[i]

\* \b at offset p
WordBoundary(t, p) == IsWord(At(t, p - 1)) # IsWord(At(t, p))

\* greedy run of characters of S from offset p: the offset after it
RECURSIVE Span(_, _, _)
Span(t, p, S) == IF p < Len(t) /\ t[p + 1] \in S THEN Span(t, p + 1, S) ELSE p

\* greedy run of characters outside S from offset p: the offset after it
RECURSIVE SpanNot(_, _, _)
SpanNot(t, p, S) == IF p < Len(t) /\ t[p + 1] \notin S THEN SpanNot(t, p + 1, S) ELSE p

\* a match object: m.end() and m.groups(); NoMatch is re's None
M(e, g) == [end |-> e, groups |-> g]

NoMatch == [end |-> -1, groups |-> <<>>]

\* (a|b|c)\s+ : index of the first alternative that stands at p followed by
\* white space, 0 when none does
RECURSIVE FirstAltSpace(_, _, _, _)
FirstAltSpace(t, p, alts, i) ==
  IF i > Len(alts) THEN 0
  ELSE IF Lit(t, p, alts[i]) /\ IsSpace(At(t, p + Len(alts[i]))) THEN i
  ELSE FirstAltSpace(t, p, alts, i + 1)

\* (?:(a|b|c)\s+)? at p: the captured group (None when skipped) and the offset after
OptKeywordSpace(t, p, alts) ==
  LET i == FirstAltSpace(t, p, alts, 1) IN
  IF i = 0 THEN [g |-> None, end |-> p]
  ELSE [g |-> alts[i], end |-> Span(t, p + Len(alts[i]), SpaceChars)]

\* (\[[^]]+\])? at p
OptRange(t, p) ==
  LET q == SpanNot(t, p + 1, {"]"}) IN
  IF At(t, p) = "[" /\ q > p + 1 /\ At(t, q) = "]"
  THEN [g |-> Sub(t, p, q + 1), end |-> q + 1]
  ELSE [g |-> None, end |-> p]

ParamTypes == << <<"s","i","g","n","e","d">>, <<"i","n","t","e","g","e","r">>, <<"r","e","a","l","t","i","m","e">>, <<"r","e","a","l">>, <<"t","i","m","e">> >>

PortDirs == << <<"i","n","p","u","t">>, <<"i","n","o","u","t">>, <<"o","u","t","p","u","t">> >>

NetTypes == << <<"r","e","g">>, <<"s","u","p","p","l","y","0">>, <<"s","u","p","p","l","y","1">>, <<"t","r","i">>, <<"t","r","i","a","n","d">>, <<"t","r","i","o","r">>,
               <<"t","r","i","0">>, <<"t","r","i","1">>, <<"w","i","r","e">>, <<"w","a","n","d">>, <<"w","o","r">> >>

NetTypesLogic == NetTypes \o << <<"l","o","g","i","c">> >>

---------------------------------------------------------------------------
(* The patterns of verilog_tokens, each matched at offset p as re.match does *)

\* /\*
re_block_comment(t, p) ==
  IF Lit(t, p, <<"/","*">>) THEN M(p + 2, <<>>) ELSE NoMatch

\* //.*\n
re_line_comment(t, p) ==
  LET q == SpanNot(t, p + 2, {"\n"}) IN
  IF Lit(t, p, <<"/","/">>) /\ At(t, q) = "\n" THEN M(q + 1, <<>>) ELSE NoMatch

\* \bmodule\s*(\w+)\s*
re_module(t, p) ==
  LET a == Span(t, p + 6, SpaceChars)
      e == Span(t, a, WordChars)
  IN IF WordBoundary(t, p) /\ Lit(t, p, <<"m","o","d","u","l","e">>) /\ e > a
     THEN M(Span(t, e, SpaceChars), <<Sub(t, a, e)>>) ELSE NoMatch

\* //#+(.*)\n
re_metacomment(t, p) ==
  LET a == Span(t, p + 2, {"#"})
      q == SpanNot(t, a, {"\n"})
  IN IF Lit(t, p, <<"/","/","#">>) /\ At(t, q) = "\n"
     THEN M(q + 1, <<Sub(t, a, q)>>) ELSE NoMatch

\* re_space for the pattern \s*, which also matches no character
re_space_or_nothing(t, p) == M(Span(t, p, SpaceChars), <<>>)

\* \s+
re_space(t, p) ==
  LET q == Span(t, p, SpaceChars) IN IF q > p THEN M(q, <<>>) ELSE NoMatch

\* \bendmodule\b
re_endmodule(t, p) ==
  IF WordBoundary(t, p) /\ Lit(t, p, <<"e","n","d","m","o","d","u","l","e">>) /\ WordBoundary(t, p + 9)
  THEN M(p + 9, <<>>) ELSE NoMatch

\* parameter\s+(?:(signed|integer|realtime|real|time)\s+)?(\[[^]]+\])?
re_parameter(t, p) ==
  LET a == Span(t, p + 9, SpaceChars)
      k == OptKeywordSpace(t, a, ParamTypes)
      r == OptRange(t, k.end)
  IN IF Lit(t, p, <<"p","a","r","a","m","e","t","e","r">>) /\ a > p + 9
     THEN M(r.end, <<k.g, r.g>>) ELSE NoMatch

\* (input|inout|output)\s+(?:(reg|supply0|supply1|tri|triand|trior|tri0|tri1|wire|wand|wor|logic)\s+)?(?:(signed)\s+)?(\[[^]]+\])?
re_module_port(t, p) ==
  LET d == FirstAltSpace(t, p, PortDirs, 1) IN
  IF d = 0 THEN NoMatch
  ELSE LET a == Span(t, p + Len(PortDirs[d]), SpaceChars)
           n == OptKeywordSpace(t, a, NetTypesLogic)
           s == OptKeywordSpace(t, n.end, << <<"s","i","g","n","e","d">> >>)
           r == OptRange(t, s.end)
       IN M(r.end, <<PortDirs[d], n.g, s.g, r.g>>)

\* \b(generate|endgenerate)\b
re_generate(t, p) ==
  IF WordBoundary(t, p) /\ Lit(t, p, <<"g","e","n","e","r","a","t","e">>) /\ WordBoundary(t, p + 8)
  THEN M(p + 8, << <<"g","e","n","e","r","a","t","e">> >>)
  ELSE IF WordBoundary(t, p) /\ Lit(t, p, <<"e","n","d","g","e","n","e","r","a","t","e">>) /\ WordBoundary(t, p + 11)
  THEN M(p + 11, << <<"e","n","d","g","e","n","e","r","a","t","e">> >>)
  ELSE NoMatch

\* \b(\w+)\s+#\s*\(
re_submodule_param_start(t, p) ==
  LET e == Span(t, p, WordChars)
      a == Span(t, e, SpaceChars)
      c == Span(t, a + 1, SpaceChars)
  IN IF WordBoundary(t, p) /\ e > p /\ a > e /\ At(t, a) = "#" /\ At(t, c) = "("
     THEN M(c + 1, <<Sub(t, p, e)>>) ELSE NoMatch

\* \b(\w+)\s+(\w+)\s*\(
re_submodule_start(t, p) ==
  LET e == Span(t, p, WordChars)
      a == Span(t, e, SpaceChars)
      f == Span(t, a, WordChars)
      c == Span(t, f, SpaceChars)
  IN IF WordBoundary(t, p) /\ e > p /\ a > e /\ f > a /\ At(t, c) = "("
     THEN M(c + 1, <<Sub(t, p, e), Sub(t, a, f)>>) ELSE NoMatch

\* //#\s*{{(.*)}}\n
re_section_meta(t, p) ==
  LET a == Span(t, p + 3, SpaceChars)
      q == SpanNot(t, a + 2, {"\n"})
  IN IF /\ Lit(t, p, <<"/","/","#">>) /\ Lit(t, a, <<"{","{">>)
        /\ At(t, q) = "\n" /\ q - 2 >= a + 2 /\ Lit(t, q - 2, <<"}","}">>)
     THEN M(q + 1, <<Sub(t, a + 2, q - 2)>>) ELSE NoMatch

\* \s*parameter\s+(?:(signed|integer|realtime|real|time)\s+)?(\[[^]]+\])?
re_parameter_next(t, p) == re_parameter(t, Span(t, p, SpaceChars))

\* \s*(\w+)\s*=\s*([^,;\s]+)\s*
re_param_item_with_value(t, p) ==
  LET a == Span(t, p, SpaceChars)
      e == Span(t, a, WordChars)
      q == Span(t, e, SpaceChars)
      v == Span(t, q + 1, SpaceChars)
      w == SpanNot(t, v, {",", ";"} \cup SpaceChars)
  IN IF e > a /\ At(t, q) = "=" /\ w > v
     THEN M(Span(t, w, SpaceChars), <<Sub(t, a, e), Sub(t, v, w)>>) ELSE NoMatch

\* \s*(\w+)[^),;]+   (\w+ gives back its last character when nothing else
\* is left for [^),;]+)
re_param_item(t, p) ==
  LET a == Span(t, p, SpaceChars)
      e == Span(t, a, WordChars)
      x == SpanNot(t, e, {")", ",", ";"})
  IN IF e > a /\ x > e THEN M(x, <<Sub(t, a, e)>>)
     ELSE IF e > a + 1 THEN M(e, <<Sub(t, a, e - 1)>>)
     ELSE NoMatch

\* ,
re_comma(t, p) == IF At(t, p) = "," THEN M(p + 1, <<>>) ELSE NoMatch

\* [);]
re_close(t, p) == IF At(t, p) \in {")", ";"} THEN M(p + 1, <<>>) ELSE NoMatch

\* \s*(input|inout|output)\s+(?:(reg|supply0|supply1|tri|triand|trior|tri0|tri1|wire|wand|wor)\s+)?(signed)?\s*(\[[^]]+\])?
re_module_port_next(t, p) ==
  LET o == Span(t, p, SpaceChars)
      d == FirstAltSpace(t, o, PortDirs, 1)
  IN IF d = 0 THEN NoMatch
     ELSE LET a == Span(t, o + Len(PortDirs[d]), SpaceChars)
              n == OptKeywordSpace(t, a, NetTypes)
              s == IF Lit(t, n.end, <<"s","i","g","n","e","d">>)
                   THEN [g |-> <<"s","i","g","n","e","d">>, end |-> n.end + 6]
                   ELSE [g |-> None, end |-> n.end]
              r == OptRange(t, Span(t, s.end, SpaceChars))
          IN M(r.end, <<PortDirs[d], n.g, s.g, r.g>>)

\* \s*(\w+)\s*,?
re_port_param(t, p) ==
  LET a == Span(t, p, SpaceChars)
      e == Span(t, a, WordChars)
      q == Span(t, e, SpaceChars)
  IN IF e > a THEN M(IF At(t, q) = "," THEN q + 1 ELSE q, <<Sub(t, a, e)>>)
     ELSE NoMatch

\* \s*\)\s*(\w+)\s*\(
re_submodule_param_end(t, p) ==
  LET a == Span(t, p, SpaceChars)
      c == Span(t, a + 1, SpaceChars)
      e == Span(t, c, WordChars)
      q == Span(t, e, SpaceChars)
  IN IF At(t, a) = ")" /\ e > c /\ At(t, q) = "("
     THEN M(q + 1, <<Sub(t, c, e)>>) ELSE NoMatch

\* \);
re_end_submodule(t, p) == IF Lit(t, p, <<")",";">>) THEN M(p + 2, <<>>) ELSE NoMatch

\* \.[^,)]+
re_assignment(t, p) ==
  LET q == SpanNot(t, p + 1, {",", ")"}) IN
  IF At(t, p) = "." /\ q > p + 1 THEN M(q, <<>>) ELSE NoMatch

\* \s*\*/
re_end_comment(t, p) ==
  LET a == Span(t, p, SpaceChars) IN
  IF Lit(t, a, <<"*","/">>) THEN M(a + 2, <<>>) ELSE NoMatch

---------------------------------------------------------------------------
(* The rule table and the lexer run *)

Rule(p, a, n) == [pat |-> p, action |-> a, new_state |-> n]

\* verilog_tokens whose submodule states are not left at the close of a
\* submodule
verilog_tokens_submodule_stays ==
  [ root |-> <<
      Rule("block_comment", "block_comment", "block_comment"),
      Rule("line_comment", "None", "None"),
      Rule("module", "module", "module"),
      Rule("metacomment", "metacomment", "None") >>,
    module |-> <<
      Rule("space", "None", "None"),
      Rule("block_comment", "block_comment", "block_comment"),
      Rule("line_comment", "None", "None"),
      Rule("endmodule", "end_module", "#pop"),
      Rule("parameter", "parameter_start", "parameters"),
      Rule("module_port", "module_port_start", "module_port"),
      Rule("generate", "None", "None"),
      Rule("submodule_param_start", "submodule_param_start", "submodule_params"),
      Rule("submodule_start", "submodule_start", "submodule"),
      Rule("section_meta", "section_meta", "None") >>,
    parameters |-> <<
      Rule("block_comment", "block_comment", "block_comment"),
      Rule("line_comment", "None", "None"),
      Rule("parameter_next", "parameter_start", "None"),
      Rule("param_item_with_value", "param_item_with_value", "None"),
      Rule("param_item", "param_item", "None"),
      Rule("comma", "None", "None"),
      Rule("close", "None", "#pop"),
      Rule("section_meta", "section_meta", "None") >>,
    module_port |-> <<
      Rule("block_comment", "block_comment", "block_comment"),
      Rule("line_comment", "None", "None"),
      Rule("module_port_next", "module_port_start", "None"),
      Rule("port_param", "port_param", "None"),
      Rule("close", "None", "#pop"),
      Rule("section_meta", "section_meta", "None") >>,
    submodule_params |-> <<
      Rule("block_comment", "block_comment", "block_comment"),
      Rule("line_comment", "None", "None"),
      Rule("submodule_param_end", "submodule_param_end", "None"),
      Rule("end_submodule", "end_submodule", "None"),
      Rule("assignment", "None", "None"),
      Rule("comma", "None", "None") >>,
    submodule |-> <<
      Rule("block_comment", "block_comment", "block_comment"),
      Rule("line_comment", "None", "None"),
      Rule("end_submodule", "end_submodule", "None"),
      Rule("assignment", "None", "None") >>,
    block_comment |-> <<
      Rule("end_comment", "end_comment", "#pop") >> ]

\* a rule with no action has action "None"; a rule with no state change has
\* new_state "None"
verilog_tokens ==
  [ root |-> <<
      Rule("block_comment", "block_comment", "block_comment"),
      Rule("line_comment", "None", "None"),
      Rule("module", "module", "module"),
      Rule("metacomment", "metacomment", "None") >>,
    module |-> <<
      Rule("space", "None", "None"),
      Rule("block_comment", "block_comment", "block_comment"),
      Rule("line_comment", "None", "None"),
      Rule("endmodule", "end_module", "#pop"),
      Rule("parameter", "parameter_start", "parameters"),
      Rule("module_port", "module_port_start", "module_port"),
      Rule("generate", "None", "None"),
      Rule("submodule_param_start", "submodule_param_start", "submodule_params"),
      Rule("submodule_start", "submodule_start", "submodule"),
      Rule("section_meta", "section_meta", "None") >>,
    parameters |-> <<
      Rule("block_comment", "block_comment", "block_comment"),
      Rule("line_comment", "None", "None"),
      Rule("parameter_next", "parameter_start", "None"),
      Rule("param_item_with_value", "param_item_with_value", "None"),
      Rule("param_item", "param_item", "None"),
      Rule("comma", "None", "None"),
      Rule("close", "None", "#pop"),
      Rule("section_meta", "section_meta", "None") >>,
    module_port |-> <<
      Rule("block_comment", "block_comment", "block_comment"),
      Rule("line_comment", "None", "None"),
      Rule("module_port_next", "module_port_start", "None"),
      Rule("port_param", "port_param", "None"),
      Rule("close", "None", "#pop"),
      Rule("section_meta", "section_meta", "None") >>,
    submodule_params |-> <<
      Rule("block_comment", "block_comment", "block_comment"),
      Rule("line_comment", "None", "None"),
      Rule("submodule_param_end", "submodule_param_end", "None"),
      Rule("end_submodule", "end_submodule", "#pop"),
      Rule("assignment", "None", "None"),
      Rule("comma", "None", "None") >>,
    submodule |-> <<
      Rule("block_comment", "block_comment", "block_comment"),
      Rule("line_comment", "None", "None"),
      Rule("end_submodule", "end_submodule", "#pop"),
      Rule("assignment", "None", "None") >>,
    block_comment |-> <<
      Rule("end_comment", "end_comment", "#pop") >> ]

\* pat.match(text, pos) for the pattern of a rule
Match(pat, t, p) ==
  CASE pat = "block_comment" -> re_block_comment(t, p)
    [] pat = "line_comment" -> re_line_comment(t, p)
    [] pat = "module" -> re_module(t, p)
    [] pat = "metacomment" -> re_metacomment(t, p)
    [] pat = "space" -> re_space(t, p)
    [] pat = "endmodule" -> re_endmodule(t, p)
    [] pat = "parameter" -> re_parameter(t, p)
    [] pat = "module_port" -> re_module_port(t, p)
    [] pat = "generate" -> re_generate(t, p)
    [] pat = "submodule_param_start" -> re_submodule_param_start(t, p)
    [] pat = "submodule_start" -> re_submodule_start(t, p)
    [] pat = "section_meta" -> re_section_meta(t, p)
    [] pat = "parameter_next" -> re_parameter_next(t, p)
    [] pat = "param_item_with_value" -> re_param_item_with_value(t, p)
    [] pat = "param_item" -> re_param_item(t, p)
    [] pat = "comma" -> re_comma(t, p)
    [] pat = "close" -> re_close(t, p)
    [] pat = "module_port_next" -> re_module_port_next(t, p)
    [] pat = "port_param" -> re_port_param(t, p)
    [] pat = "submodule_param_end" -> re_submodule_param_end(t, p)
    [] pat = "end_submodule" -> re_end_submodule(t, p)
    [] pat = "assignment" -> re_assignment(t, p)
    [] pat = "end_comment" -> re_end_comment(t, p)

\* the rules of a state tried in list order from rule i: the first that
\* matches at p (rule 0 when none does)
RECURSIVE FirstMatch(_, _, _, _)
FirstMatch(rules, i, t, p) ==
  IF i > Len(rules)
  THEN [rule |-> 0, end |-> -1, groups |-> <<>>, action |-> "None", new_state |-> "None"]
  ELSE LET m == Match(rules[i].pat, t, p) IN
       IF m.end >= 0
       THEN [rule |-> i, end |-> m.end, groups |-> m.groups,
             action |-> rules[i].action, new_state |-> rules[i].new_state]
       ELSE FirstMatch(rules, i + 1, t, p)

Top(s) == s[Len(s)]

\* the first matching rule of the state on top of the stack
Scan(t, p, s) == FirstMatch(verilog_tokens[Top(s)], 1, t, p)

\* the state transition of a rule: push a named state, pop, or stay
Transition(s, new_state) ==
  IF new_state = "None" THEN s
  ELSE IF new_state = "#pop" THEN SubSeq(s, 1, Len(s) - 1)
  ELSE Append(s, new_state)

\* stack and cursor at the start of a run
RunStack == <<"root">>

RunPos == 0

---------------------------------------------------------------------------
(* Python values used by parse_verilog *)

\* str.strip()
RECURSIVE LStrip(_)
LStrip(s) == IF s # <<>> /\ IsSpace(Head(s)) THEN LStrip(Tail(s)) ELSE s

RECURSIVE RStrip(_)
RStrip(s) == IF s # <<>> /\ IsSpace(s[Len(s)]) THEN RStrip(SubSeq(s, 1, Len(s) - 1)) ELSE s

Strip(s) == RStrip(LStrip(s))

\* sep.join(lines)
RECURSIVE Join(_, _)
Join(lines, sep) ==
  IF lines = <<>> THEN <<>>
  ELSE IF Len(lines) = 1 THEN lines[1]
  ELSE lines[1] \o sep \o Join(Tail(lines), sep)

\* lst[lo:hi] for lo, hi >= 0
PySlice(lst, lo, hi) ==
  LET top == IF hi < Len(lst) THEN hi ELSE Len(lst)
      n == IF top > lo THEN top - lo ELSE 0
  IN [i \in 1..n |-> lst[lo + i]]

\* an insertion-ordered dict is a sequence of [key, val] with distinct keys
DictHas(d, k) == \E i \in 1..Len(d) : d[i].key = k

\* d[k] = v : a present key keeps its place, a new key goes last
DictSet(d, k, v) ==
  IF DictHas(d, k)
  THEN [i \in 1..Len(d) |-> IF d[i].key = k THEN [key |-> k, val |-> v] ELSE d[i]]
  ELSE Append(d, [key |-> k, val |-> v])

DictKeys(d) == [i \in 1..Len(d) |-> d[i].key]

DictValues(d) == [i \in 1..Len(d) |-> d[i].val]

\* VerilogParameter(name, mode, data_type, default_value)
VerilogParameter(name, mode, data_type, default_value) ==
  [name |-> name, mode |-> mode, data_type |-> data_type,
   default_value |-> default_value, desc |-> None]

\* VerilogPort(name, mode, data_type)
VerilogPort(name, mode, data_type) ==
  [name |-> name, mode |-> mode, data_type |-> data_type, desc |-> None]

\* VerilogSubModule(module_type, instance_name)
VerilogSubModule(module_type, instance_name) ==
  [module_type |-> module_type, instance_name |-> instance_name,
   port_connections |-> <<>>, desc |-> None]

\* VerilogModule(name, ports, generics, sections, submodules): ports is a
\* list of references to port objects, generics and submodules are
\* references to the lists handed in
VerilogModule(name, ports, generics, sections, submodules) ==
  [name |-> name, kind |-> <<"m","o","d","u","l","e">>, generics |-> generics, ports |-> ports,
   sections |-> sections, submodules |-> submodules, desc |-> None]

wire == <<"w","i","r","e">>

---------------------------------------------------------------------------
(* The objects parse_verilog shares by reference: heap.ports holds the      *)
(* VerilogPort objects, heap.gens the generics lists, heap.subs the         *)
(* submodules lists and heap.objs the objects lists; a reference is an      *)
(* index, 0 is None.                                                        *)

EmptyHeap == [ports |-> <<>>, gens |-> <<>>, subs |-> <<>>, objs |-> <<>>]

\* InitLocals with `objects` bound once to a list shared by every call
InitLocalsShared(h) ==
  [ b |-> [ name |-> None, kind |-> None, mode |-> <<"i","n","p","u","t">>, ptype |-> wire,
            metacomments |-> <<>>, param_items |-> <<>>,
            generics |-> Len(h.gens) + 1, ports |-> <<>>, sections |-> <<>>,
            port_param_index |-> 0, last_item |-> 0,
            current_submodule |-> <<>>, submodules |-> Len(h.subs) + 1,
            objects |-> 1 ],
    h |-> [h EXCEPT !.gens = Append(@, <<>>), !.subs = Append(@, <<>>),
                    !.objs = IF @ = <<>> THEN << <<>> >> ELSE @] ]

\* the locals of parse_verilog after lines 213-233, on heap h: the lists
\* `generics = []`, `submodules = []` and `objects = []` are allocated
InitLocals(h) ==
  [ b |-> [ name |-> None, kind |-> None, mode |-> <<"i","n","p","u","t">>, ptype |-> wire,
            metacomments |-> <<>>, param_items |-> <<>>,
            generics |-> Len(h.gens) + 1, ports |-> <<>>, sections |-> <<>>,
            port_param_index |-> 0, last_item |-> 0,
            current_submodule |-> <<>>, submodules |-> Len(h.subs) + 1,
            objects |-> Len(h.objs) + 1 ],
    h |-> [h EXCEPT !.gens = Append(@, <<>>), !.subs = Append(@, <<>>),
                    !.objs = Append(@, <<>>)] ]

\* if action == 'metacomment'
on_metacomment(l, h, groups) ==
  IF l.last_item = 0
  THEN [b |-> [l EXCEPT !.metacomments = Append(@, groups[1])], h |-> h]
  ELSE [b |-> l, h |-> [h EXCEPT !.ports[l.last_item].desc = groups[1]]]

\* if action == 'section_meta'
on_section_meta(l, h, groups) ==
  [b |-> [l EXCEPT !.sections = Append(@, <<l.port_param_index, groups[1]>>)], h |-> h]

\* on_module that goes on with the generics list of the module before
on_module_keeps_generics(l, h, groups) ==
  [ b |-> [l EXCEPT !.kind = <<"m","o","d","u","l","e">>, !.name = groups[1],
                    !.ports = <<>>,
                    !.param_items = <<>>, !.sections = <<>>,
                    !.port_param_index = 0, !.submodules = Len(h.subs) + 1,
                    !.ptype = wire],
    h |-> [h EXCEPT !.gens = Append(@, <<>>), !.subs = Append(@, <<>>)] ]

\* on_module that goes on with the submodules list of the module before
on_module_keeps_submodules(l, h, groups) ==
  [ b |-> [l EXCEPT !.kind = <<"m","o","d","u","l","e">>, !.name = groups[1],
                    !.generics = Len(h.gens) + 1, !.ports = <<>>,
                    !.param_items = <<>>, !.sections = <<>>,
                    !.port_param_index = 0,
                    !.ptype = wire],
    h |-> [h EXCEPT !.gens = Append(@, <<>>), !.subs = Append(@, <<>>)] ]

\* on_module that also appends a record for the module it opens
on_module_appends(l, h, groups) ==
  [ b |-> [l EXCEPT !.kind = <<"m","o","d","u","l","e">>, !.name = groups[1],
                    !.generics = Len(h.gens) + 1, !.ports = <<>>,
                    !.param_items = <<>>, !.sections = <<>>,
                    !.port_param_index = 0, !.submodules = Len(h.subs) + 1,
                    !.ptype = wire],
    h |-> [h EXCEPT !.gens = Append(@, <<>>), !.subs = Append(@, <<>>),
                    !.objs[l.objects] =
                       Append(@, VerilogModule(groups[1], <<>>, Len(h.gens) + 1,
                                               <<>>, Len(h.subs) + 1))] ]

\* elif action == 'module'
on_module(l, h, groups) ==
  [ b |-> [l EXCEPT !.kind = <<"m","o","d","u","l","e">>, !.name = groups[1],
                    !.generics = Len(h.gens) + 1, !.ports = <<>>,
                    !.param_items = <<>>, !.sections = <<>>,
                    !.port_param_index = 0, !.submodules = Len(h.subs) + 1,
                    !.ptype = wire],
    h |-> [h EXCEPT !.gens = Append(@, <<>>), !.subs = Append(@, <<>>)] ]

\* elif action == 'submodule_param_start'
on_submodule_param_start(l, h, groups) ==
  [b |-> [l EXCEPT !.current_submodule = <<VerilogSubModule(groups[1], None)>>], h |-> h]

\* elif action == 'submodule_param_end'
on_submodule_param_end(l, h, groups) ==
  IF l.current_submodule # <<>>
  THEN [b |-> [l EXCEPT !.current_submodule[1].instance_name = groups[1]], h |-> h]
  ELSE [b |-> l, h |-> h]

\* elif action == 'submodule_start'
on_submodule_start(l, h, groups) ==
  [b |-> [l EXCEPT !.current_submodule = <<VerilogSubModule(groups[1], groups[2])>>], h |-> h]

\* on_end_submodule that puts the submodule at the front of the list
on_end_submodule_front(l, h, groups) ==
  IF l.current_submodule # <<>>
  THEN [b |-> [l EXCEPT !.current_submodule = <<>>],
        h |-> [h EXCEPT !.subs[l.submodules] = <<l.current_submodule[1]>> \o @]]
  ELSE [b |-> l, h |-> h]

\* elif action == 'end_submodule'
on_end_submodule(l, h, groups) ==
  IF l.current_submodule # <<>>
  THEN [b |-> [l EXCEPT !.current_submodule = <<>>],
        h |-> [h EXCEPT !.subs[l.submodules] = Append(@, l.current_submodule[1])]]
  ELSE [b |-> l, h |-> h]

\* on_parameter_start that leaves the bit-range out of the type
on_parameter_start_norange(l, h, groups) ==
  LET net_type == groups[1]
      t1 == IF net_type # None THEN net_type ELSE wire
  IN [b |-> [l EXCEPT !.ptype = t1], h |-> h]

\* elif action == 'parameter_start'
on_parameter_start(l, h, groups) ==
  LET net_type == groups[1]
      vec_range == groups[2]
      t1 == IF net_type # None THEN net_type ELSE wire
      t2 == IF vec_range # None THEN t1 \o <<" ">> \o vec_range ELSE t1
  IN [b |-> [l EXCEPT !.ptype = t2], h |-> h]

\* elif action == 'param_item_with_value'
on_param_item_with_value(l, h, groups) ==
  LET pname == groups[1]
      pvalue == Strip(groups[2])
  IN [b |-> l,
      h |-> [h EXCEPT !.gens[l.generics] =
                        Append(@, VerilogParameter(pname, <<"i","n">>, l.ptype, pvalue))]]

\* on_param_item without the duplicate test
on_param_item_always(l, h, groups) ==
  LET pname == Strip(groups[1])
  IN [b |-> l,
      h |-> [h EXCEPT !.gens[l.generics] =
                        Append(@, VerilogParameter(pname, <<"i","n">>, l.ptype, None))]]

\* on_param_item that tests for duplicates among the bare parameters only
on_param_item_bare_only(l, h, groups) ==
  LET pname == Strip(groups[1])
      g == h.gens[l.generics]
  IN IF pname # <<>> /\ ~(\E i \in 1..Len(g) :
                            g[i].name = pname /\ g[i].default_value = None)
     THEN [b |-> l,
           h |-> [h EXCEPT !.gens[l.generics] =
                             Append(@, VerilogParameter(pname, <<"i","n">>, l.ptype, None))]]
     ELSE [b |-> l, h |-> h]

\* elif action == 'param_item'
on_param_item(l, h, groups) ==
  LET pname == Strip(groups[1])
      g == h.gens[l.generics]
  IN IF pname # <<>> /\ ~(\E i \in 1..Len(g) : g[i].name = pname)
     THEN [b |-> l,
           h |-> [h EXCEPT !.gens[l.generics] =
                             Append(@, VerilogParameter(pname, <<"i","n">>, l.ptype, None))]]
     ELSE [b |-> l, h |-> h]

\* on_module_port_start that leaves the signedness out of the type
on_module_port_start_unsigned(l, h, groups) ==
  LET new_mode == groups[1]
      net_type == groups[2]
      vec_range == groups[4]
      t1 == IF net_type # None THEN net_type ELSE wire
      t3 == IF vec_range # None THEN t1 \o <<" ">> \o vec_range ELSE t1
  IN [b |-> [l EXCEPT !.mode = new_mode, !.ptype = t3, !.param_items = <<>>], h |-> h]

\* elif action == 'module_port_start'
on_module_port_start(l, h, groups) ==
  LET new_mode == groups[1]
      net_type == groups[2]
      signed == groups[3]
      vec_range == groups[4]
      t1 == IF net_type # None THEN net_type ELSE wire
      t2 == IF signed # None THEN t1 \o <<" ">> \o signed ELSE t1
      t3 == IF vec_range # None THEN t2 \o <<" ">> \o vec_range ELSE t2
  IN [b |-> [l EXCEPT !.mode = new_mode, !.ptype = t3, !.param_items = <<>>], h |-> h]

\* on_port_param that moves a port declared again to the end of the ports
on_port_param_reinserts(l, h, groups) ==
  LET pname == groups[1]
      ref == Len(h.ports) + 1
  IN [b |-> [l EXCEPT !.param_items = Append(@, pname),
                      !.ports = Append(SelectSeq(@, LAMBDA e : e.key # pname),
                                       [key |-> pname, val |-> ref]),
                      !.port_param_index = @ + 1,
                      !.last_item = ref],
      h |-> [h EXCEPT !.ports = Append(@, VerilogPort(pname, l.mode, l.ptype))]]

\* elif action == 'port_param'
on_port_param(l, h, groups) ==
  LET pname == groups[1]
      ref == Len(h.ports) + 1
  IN [b |-> [l EXCEPT !.param_items = Append(@, pname),
                      !.ports = DictSet(@, pname, ref),
                      !.port_param_index = @ + 1,
                      !.last_item = ref],
      h |-> [h EXCEPT !.ports = Append(@, VerilogPort(pname, l.mode, l.ptype))]]

\* the loop over sections at end_module, from entry i: sections_dict
RECURSIVE SectionsDict(_, _, _, _, _)
SectionsDict(sections, i, last_pos, ports, sections_dict) ==
  IF i > Len(sections) THEN sections_dict
  ELSE LET p == sections[i][1]
           section == sections[i][2]
       IN SectionsDict(sections, i + 1, p, ports,
            IF last_pos < Len(ports)
            THEN DictSet(sections_dict, section, PySlice(DictKeys(ports), last_pos, p))
            ELSE sections_dict)

\* on_end_module that puts the module at the front of objects
on_end_module_front(l, h, groups) ==
  LET sections_dict == SectionsDict(l.sections, 1, 0, l.ports, <<>>)
      module == VerilogModule(l.name, DictValues(l.ports), l.generics,
                              sections_dict, l.submodules)
  IN [b |-> [l EXCEPT !.metacomments = <<>>],
      h |-> [h EXCEPT !.objs[l.objects] = <<module>> \o @]]

\* elif action == 'end_module'
on_end_module(l, h, groups) ==
  LET sections_dict == SectionsDict(l.sections, 1, 0, l.ports, <<>>)
      module == VerilogModule(l.name, DictValues(l.ports), l.generics,
                              sections_dict, l.submodules)
      described == IF l.metacomments # <<>>
                   THEN [module EXCEPT !.desc = Join(l.metacomments, <<"\n">>)]
                   ELSE module
  IN [b |-> [l EXCEPT !.metacomments = <<>>],
      h |-> [h EXCEPT !.objs[l.objects] = Append(@, described)]]

\* Handle that buffers a block comment as an (empty) description line
Handle_buffers_comments(l, h, action, groups) ==
  CASE action = "metacomment" -> on_metacomment(l, h, groups)
    [] action = "section_meta" -> on_section_meta(l, h, groups)
    [] action = "module" -> on_module(l, h, groups)
    [] action = "submodule_param_start" -> on_submodule_param_start(l, h, groups)
    [] action = "submodule_param_end" -> on_submodule_param_end(l, h, groups)
    [] action = "submodule_start" -> on_submodule_start(l, h, groups)
    [] action = "end_submodule" -> on_end_submodule(l, h, groups)
    [] action = "parameter_start" -> on_parameter_start(l, h, groups)
    [] action = "param_item_with_value" -> on_param_item_with_value(l, h, groups)
    [] action = "param_item" -> on_param_item(l, h, groups)
    [] action = "module_port_start" -> on_module_port_start(l, h, groups)
    [] action = "port_param" -> on_port_param(l, h, groups)
    [] action = "end_module" -> on_end_module(l, h, groups)
    [] action = "block_comment" ->
         [b |-> [l EXCEPT !.metacomments = Append(@, <<>>)], h |-> h]
    [] OTHER -> [b |-> l, h |-> h]

\* the body of the loop `for pos, action, groups in lex.run(text)` for one triple
Handle(l, h, action, groups) ==
  CASE action = "metacomment" -> on_metacomment(l, h, groups)
    [] action = "section_meta" -> on_section_meta(l, h, groups)
    [] action = "module" -> on_module(l, h, groups)
    [] action = "submodule_param_start" -> on_submodule_param_start(l, h, groups)
    [] action = "submodule_param_end" -> on_submodule_param_end(l, h, groups)
    [] action = "submodule_start" -> on_submodule_start(l, h, groups)
    [] action = "end_submodule" -> on_end_submodule(l, h, groups)
    [] action = "parameter_start" -> on_parameter_start(l, h, groups)
    [] action = "param_item_with_value" -> on_param_item_with_value(l, h, groups)
    [] action = "param_item" -> on_param_item(l, h, groups)
    [] action = "module_port_start" -> on_module_port_start(l, h, groups)
    [] action = "port_param" -> on_port_param(l, h, groups)
    [] action = "end_module" -> on_end_module(l, h, groups)
    [] OTHER -> [b |-> l, h |-> h]

\* a module record with every reference followed: the value a caller reads
ModuleView(m, h) ==
  [name |-> m.name, kind |-> m.kind, desc |-> m.desc, sections |-> m.sections,
   ports |-> [i \in 1..Len(m.ports) |-> h.ports[m.ports[i]]],
   generics |-> h.gens[m.generics],
   submodules |-> h.subs[m.submodules]]

\* a returned list, given by reference, with every reference followed
ListView(ref, h) == [i \in 1..Len(h.objs[ref]) |-> ModuleView(h.objs[ref][i], h)]

---------------------------------------------------------------------------
(* Input texts: concatenations of at most MaxChunks pieces of Verilog *)

RECURSIVE Texts(_, _)
Texts(C, n) ==
  IF n = 0 THEN {<<>>}
  ELSE LET T == Texts(C, n - 1) IN T \cup {t \o c : t \in T, c \in C}

\* module declarations, comments and a port group
StructChunks ==
  { <<"m","o","d","u","l","e"," ","a"," ">>, <<"m","o","d","u","l","e"," ","b","\r","\n">>, <<"e","n","d","m","o","d","u","l","e">>, <<"e","n","d","m","o","d","u","l","e","/","/","c","\n">>,
    <<"/","*">>, <<"*","/">>, <<"i","n","p","u","t"," ","x",";">> }

StructTexts == Texts(StructChunks, MaxChunks)

\* port groups and port items inside one module
PortChunks ==
  { <<"i","n","p","u","t"," ">>, <<"o","u","t","p","u","t"," ","r","e","g"," ","[","7",":","0","]"," ">>, <<"i","n","o","u","t"," ","w","i","r","e"," ","s","i","g","n","e","d"," ","[","3",":","0","]">>,
    <<"i","n","p","u","t"," ","s","i","g","n","e","d"," ">>, <<" ","c","l","k",",">>, <<"d","a","t","a">> }

PortTexts ==
  { <<"m","o","d","u","l","e"," ","m"," ">> \o body \o tail :
      body \in Texts(PortChunks, MaxChunks), tail \in { <<>>, <<";","e","n","d","m","o","d","u","l","e">> } }

\* parameter groups and parameter items, in one module or two
ParamChunks ==
  { <<"W","I","D","T","H"," ","="," ","8">>, <<"A","D","D","R"," ","="," ","8","'","h","F","F">>, <<"W","I","D","T","H"," ">>, <<",">>,
    <<"p","a","r","a","m","e","t","e","r"," ","[","7",":","0","]"," ">>,
    <<";","e","n","d","m","o","d","u","l","e","/","/","c","\n","m","o","d","u","l","e"," ","n"," ","p","a","r","a","m","e","t","e","r"," ","i","n","t","e","g","e","r"," ","[","3",":","0","]"," ">> }

ParamTexts ==
  { <<"m","o","d","u","l","e"," ","m"," ","p","a","r","a","m","e","t","e","r"," ">> \o body \o tail :
      body \in Texts(ParamChunks, MaxChunks), tail \in { <<>>, <<";","e","n","d","m","o","d","u","l","e">> } }

\* submodule instantiations, plain and parameterized, in one module or two
SubChunks ==
  { <<"s","u","b","_","m","o","d","u","l","e"," ","i","n","s","t","a","n","c","e","1"," ","(">>, <<"s","u","b","_","m","o","d","u","l","e"," ","#","(">>, <<")"," ","i","n","s","t","a","n","c","e","2"," ","(">>, <<")",";">>,
    <<".","c","l","k","(","c","l","k">>, <<"o","t","h","é","r"," ","u","(",")",";">>, <<"e","n","d","m","o","d","u","l","e","/","/","c","\n","m","o","d","u","l","e"," ","n"," ">> }

SubTexts ==
  { <<"m","o","d","u","l","e"," ","m"," ">> \o body \o tail :
      body \in Texts(SubChunks, MaxChunks), tail \in { <<>>, <<"e","n","d","m","o","d","u","l","e">> } }

---------------------------------------------------------------------------
(* parse_verilog(text) over lex.run(text), one lexer match at a time *)

Start(T) ==
  /\ text \in T
  /\ call = 1
  /\ status = "running"
  /\ pos = RunPos
  /\ stack = RunStack
  /\ b = InitLocals(EmptyHeap).b
  /\ heap = InitLocals(EmptyHeap).h
  /\ emitted = <<>>
  /\ result = <<>>
  /\ first = <<>>
  /\ object_cache = <<>>
  /\ files = <<>>
  /\ calls = <<>>

Init == Start(StructTexts)

InitPorts == Start(PortTexts)

InitParams == Start(ParamTexts)

InitSub == Start(SubTexts)

\* NoRule that steps over two characters
NoRuleTwo(p) == p + 2

\* no rule matches at offset p: the character there is stepped over and the
\* scan goes on at the next offset
NoRule(p) == p + 1

\* the first rule that matches is committed: the cursor moves past the
\* match, the triple (if the rule has an action) is handled by the loop body
\* of parse_verilog, and the state transition is applied
Step ==
  /\ status = "running"
  /\ pos < Len(text)
  /\ \E m \in {Scan(text, pos, stack)} :
     /\ m.rule # 0
     /\ pos' = m.end
     /\ stack' = Transition(stack, m.new_state)
     /\ IF m.action = "None"
        THEN UNCHANGED <<b, heap, emitted>>
        ELSE \E r \in {Handle(b, heap, m.action, m.groups)} :
             /\ b' = r.b
             /\ heap' = r.h
             /\ emitted' = Append(emitted, [pos |-> pos, action |-> m.action,
                                            groups |-> m.groups])
  /\ UNCHANGED <<text, call, status, result, first, xvars>>

\* no rule of the state on top of the stack matches at the cursor: no
\* triple, the stack stays, the cursor moves by one character
Skip ==
  /\ status = "running"
  /\ pos < Len(text)
  /\ Scan(text, pos, stack).rule = 0
  /\ pos' = NoRule(pos)
  /\ UNCHANGED <<text, call, status, stack, b, heap, emitted, result, first, xvars>>

\* the cursor is at the end of the text: the run is exhausted and
\* parse_verilog returns objects
Return ==
  /\ status = "running"
  /\ pos = Len(text)
  /\ status' = "done"
  /\ result' = <<b.objects>>
  /\ UNCHANGED <<text, call, pos, stack, b, heap, emitted, first, xvars>>

\* what the caller holds after a call: the returned list with every
\* reference followed
Outcome == [status |-> status,
            value |-> IF status = "done" THEN ListView(result[1], heap) ELSE <<>>]

\* a second, independent parse_verilog(text) on the same text
CallAgain ==
  /\ status = "done"
  /\ call < MaxCalls
  /\ call' = call + 1
  /\ first' = IF first = <<>> THEN <<Outcome>> ELSE first
  /\ status' = "running"
  /\ pos' = RunPos
  /\ stack' = RunStack
  /\ b' = InitLocals(heap).b
  /\ heap' = InitLocals(heap).h
  /\ emitted' = <<>>
  /\ result' = <<>>
  /\ UNCHANGED <<text, xvars>>

Next == Step \/ Skip \/ Return

NextTwice == Step \/ Skip \/ Return \/ CallAgain

Spec == Init /\ [][Next]_vars

SpecPorts == InitPorts /\ [][Next]_vars

SpecParams == InitParams /\ [][Next]_vars

SpecSub == InitSub /\ [][Next]_vars

SpecTwice == Init /\ [][NextTwice]_vars

---------------------------------------------------------------------------
(* Reading the triple sequence *)

Triples(a) == SelectSeq(emitted, LAMBDA x : x.action = a)

Count(a) == Len(Triples(a))

\* the indices of emitted that carry action a
Indices(a) == {i \in 1..Len(emitted) : emitted[i].action = a}

SetMax(S) == CHOOSE x \in S : \A y \in S : y <= x

LastTriple == emitted[Len(emitted)]

\* the list of the current call
Objects == heap.objs[b.objects]

---------------------------------------------------------------------------
(* Claims *)

\* C1: when every module-open of the input reached its end_module, the
\* returned list has one record per module-open, in source order, each with
\* the name captured at its module-open.
C1_ModulesInSourceOrder ==
  (status = "done" /\ Count("module") = Count("end_module")) =>
     LET opens == Triples("module")
         out == heap.objs[result[1]]
     IN /\ Len(out) = Len(opens)
        /\ \A i \in 1..Len(out) : out[i].name = opens[i].groups[1]

\* two modules of different names were returned
C1_Witness ==
  /\ status = "done"
  /\ Count("module") = 2 /\ Count("end_module") = 2
  /\ Len(heap.objs[result[1]]) = 2
  /\ heap.objs[result[1]][1].name = <<"a">>
  /\ heap.objs[result[1]][2].name = <<"b">>

\* C2 (as claimed): when no rule of the state on top of the stack matches at
\* the cursor, the scan fails at that offset: the cursor stays, no triple is
\* added and nothing is returned; after a failure the call makes no further
\* step.
C2_NoRuleIsFatal ==
  [][ /\ (status = "running" /\ pos < Len(text) /\ Scan(text, pos, stack).rule = 0)
         => (status' = "failed" /\ pos' = pos /\ emitted' = emitted /\ result' = <<>>)
      /\ status = "failed"
         => (status' = "failed" /\ pos' = pos /\ emitted' = emitted /\ result' = <<>>)
    ]_vars

\* C2 (amended): when no rule of the state on top of the stack matches at the
\* cursor, the run steps over that one character: the cursor moves by one,
\* no triple is produced, the stack, the builder and its records stay as
\* they are and the run goes on; a call never ends in a failure, it returns
\* its module list when the cursor is at the end of the text.
C2_NoRuleStepsOver ==
  /\ [](status \in {"running", "done"})
  /\ [][ /\ (status = "running" /\ pos < Len(text) /\ Scan(text, pos, stack).rule = 0)
            => /\ status' = "running"
               /\ pos' = pos + 1
               /\ emitted' = emitted
               /\ stack' = stack
               /\ b' = b /\ heap' = heap
               /\ result' = <<>>
         /\ status' = "done" => (pos = Len(text) /\ result' = <<b.objects>>)
       ]_vars

\* a call that returned a module although no root rule matched the first
\* character of the text and no rule of the module state matched the
\* character after the module-open: both were stepped over
C2_Witness ==
  /\ status = "done"
  /\ Len(heap.objs[result[1]]) = 1
  /\ Count("module") = 1
  /\ Scan(text, 0, RunStack).rule = 0
  /\ emitted[1].action = "module"
  /\ LET e == re_module(text, emitted[1].pos).end
     IN e < Len(text) /\ Scan(text, e, <<"root", "module">>).rule = 0

\* C3 (as claimed): a parse that reaches the end of the input with more than
\* the root state on the stack does not return a module list.
C3_EndOutsideRootFails == ~(status = "done" /\ Len(stack) > 1)

\* C4: at every point the objects list holds exactly the modules whose
\* end_module was processed, in order; a module that is open is not in it,
\* and the returned list is that list.
C4_OnlyClosedModules ==
  /\ Len(Objects) = Count("end_module")
  /\ Count("end_module") <= Count("module")
  /\ \A i \in 1..Len(Objects) : Objects[i].name = Triples("module")[i].groups[1]
  /\ status = "done" => result = <<b.objects>>

\* a returned list that leaves out the module whose end_module never came
C4_Witness ==
  /\ status = "done"
  /\ Count("module") = 2 /\ Count("end_module") = 1
  /\ Len(heap.objs[result[1]]) = 1

\* C5: a second parse_verilog call on the same text ends as the first did
\* and returns a structurally equal module list.
C5_SameTextSameModules ==
  (call > 1 /\ status = "done") => Outcome = first[1]

\* a second call that returned a module with a port
C5_Witness ==
  /\ call = 2 /\ status = "done"
  /\ Len(Outcome.value) = 1
  /\ Len(Outcome.value[1].ports) = 1
  /\ Outcome = first[1]

\* the type string of the claims: the storage class (else 'wire'), then
\* ' signed' if signedness was given, then ' ' and the bit-range if given
TypeString(storage, signed, range) ==
  (IF storage = None THEN <<"w","i","r","e">> ELSE storage)
  \o (IF signed = None THEN <<>> ELSE <<" ","s","i","g","n","e","d">>)
  \o (IF range = None THEN <<>> ELSE <<" ">> \o range)

\* the most recent triple of action a
MostRecent(a) == emitted[SetMax(Indices(a))]

\* the port a port-item has just created
LastPort == heap.ports[b.last_item]

\* C6: a port-item yields a Port with the captured name, the direction of
\* the most recent port-group-open and the type string assembled from that
\* group's storage class, signedness and bit-range; 'output reg [7:0] data'
\* gives 'reg [7:0]' and a group of just 'input' gives 'wire'.
C6_PortDirectionAndType ==
  (emitted # <<>> /\ LastTriple.action = "port_param") =>
     LET g == MostRecent("module_port_start")
     IN /\ Indices("module_port_start") # {}
        /\ LastPort = [name |-> LastTriple.groups[1],
                       mode |-> g.groups[1],
                       data_type |-> TypeString(g.groups[2], g.groups[3], g.groups[4]),
                       desc |-> None]
        /\ Lit(text, g.pos, <<"o","u","t","p","u","t"," ","r","e","g"," ","[","7",":","0","]"," ","d","a","t","a">>)
             => (LastPort.mode = <<"o","u","t","p","u","t">> /\ LastPort.data_type = <<"r","e","g"," ","[","7",":","0","]">>)
        /\ g.groups = << <<"i","n","p","u","t">>, None, None, None >>
             => (LastPort.mode = <<"i","n","p","u","t">> /\ LastPort.data_type = <<"w","i","r","e">>)

\* a module returned with ports clk (input wire) and data (output reg [7:0])
C6_Witness ==
  /\ status = "done"
  /\ Len(Outcome.value) = 1
  /\ Outcome.value[1].ports =
       << [name |-> <<"c","l","k">>, mode |-> <<"i","n","p","u","t">>, data_type |-> <<"w","i","r","e">>, desc |-> None],
          [name |-> <<"d","a","t","a">>, mode |-> <<"o","u","t","p","u","t">>, data_type |-> <<"r","e","g"," ","[","7",":","0","]">>,
           desc |-> None] >>

\* the generics list of the module being built
Generics == heap.gens[b.generics]

\* the text reads `open` at the group-open g and then `item`, ended by a
\* separator or the end of the text, and the last triple is that item
Declared(g, open, item) ==
  /\ Lit(text, g.pos, open \o item)
  /\ At(text, g.pos + Len(open) + Len(item)) \in {",", ";", EOF} \cup SpaceChars
  /\ LastTriple.pos = g.pos + Len(open)

\* C7: a parameter item with a default yields a Parameter with direction
\* 'in', the captured name, the captured default text and the type of the
\* most recent parameter-group-open; 'parameter WIDTH = 8' gives type 'wire'
\* and default '8', 'parameter [7:0] ADDR = 8'hFF' gives 'wire [7:0]' and
\* '8'hFF'.
C7_ParameterWithDefault ==
  (emitted # <<>> /\ LastTriple.action = "param_item_with_value") =>
     LET g == MostRecent("parameter_start")
         p == Generics[Len(Generics)]
     IN /\ Indices("parameter_start") # {}
        /\ Generics # <<>>
        /\ p = [name |-> LastTriple.groups[1], mode |-> <<"i","n">>,
                data_type |-> TypeString(g.groups[1], None, g.groups[2]),
                default_value |-> LastTriple.groups[2], desc |-> None]
        /\ Declared(g, <<"p","a","r","a","m","e","t","e","r"," ">>, <<"W","I","D","T","H"," ","="," ","8">>)
             => (p.name = <<"W","I","D","T","H">> /\ p.data_type = <<"w","i","r","e">>
                 /\ p.default_value = <<"8">>)
        /\ Declared(g, <<"p","a","r","a","m","e","t","e","r"," ","[","7",":","0","]">>, <<" ","A","D","D","R"," ","="," ","8","'","h","F","F">>)
             => (p.name = <<"A","D","D","R">> /\ p.data_type = <<"w","i","r","e"," ","[","7",":","0","]">>
                 /\ p.default_value = <<"8","'","h","F","F">>)

\* a module returned with WIDTH (wire, 8) followed by ADDR (wire [7:0], 8'hFF)
C7_Witness ==
  /\ status = "done"
  /\ Len(Outcome.value) = 1
  /\ Outcome.value[1].generics =
       << [name |-> <<"W","I","D","T","H">>, mode |-> <<"i","n">>, data_type |-> <<"w","i","r","e">>,
           default_value |-> <<"8">>, desc |-> None],
          [name |-> <<"A","D","D","R">>, mode |-> <<"i","n">>, data_type |-> <<"w","i","r","e"," ","[","7",":","0","]">>,
           default_value |-> <<"8","'","h","F","F">>, desc |-> None] >>

\* the parameter lists of the finalized modules of the current call
FinalGenerics == {heap.gens[Objects[i].generics] : i \in 1..Len(Objects)}

\* C8 (as claimed): in every finalized module the parameter names are
\* pairwise distinct.
C8_ParameterNamesDistinct ==
  \A g \in FinalGenerics :
     \A i, j \in 1..Len(g) : g[i].name = g[j].name => i = j

\* C8 (amended): in every finalized module a parameter name is repeated only
\* by declarations with a default: every record after the first of its name
\* carries a default value, so no bare declaration repeats a recorded name.
C8_OnlyDefaultsRepeatNames ==
  \A g \in FinalGenerics :
     \A i, j \in 1..Len(g) :
        (i < j /\ g[i].name = g[j].name) => g[j].default_value # None

\* a finalized module in which WIDTH is recorded twice: a bare WIDTH was
\* declared first, and the WIDTH with the default value 8 that followed
\* repeated the recorded name
C8_Witness ==
  /\ Len(Objects) >= 1
  /\ LET g == heap.gens[Objects[1].generics]
     IN /\ Len(g) = 2
        /\ g[1].name = <<"W","I","D","T","H">> /\ g[2].name = <<"W","I","D","T","H">>
        /\ g[2].default_value = <<"8">>
  /\ \E i \in Indices("param_item") :
        /\ i < SetMax(Indices("end_module") \cup {0})
        /\ emitted[i].groups[1] = <<"W","I","D","T","H">>

\* C9: a bare parameter item is appended only if no parameter of its name is
\* recorded for the current module, by whichever kind of item; otherwise the
\* parameter list stays as it is.
C9_BareParameterOnce ==
  [][ (emitted' # emitted /\ emitted'[Len(emitted')].action = "param_item") =>
        LET n == emitted'[Len(emitted')].groups[1]
        IN /\ b'.generics = b.generics
           /\ heap'.gens[b.generics] =
                IF \E i \in 1..Len(Generics) : Generics[i].name = n
                THEN Generics
                ELSE Append(Generics, [name |-> n, mode |-> <<"i","n">>,
                                       data_type |-> b.ptype,
                                       default_value |-> None, desc |-> None])
    ]_vars

\* a bare WIDTH arrived after WIDTH had been recorded with a default, and the
\* list still holds the one record
C9_Witness ==
  /\ emitted # <<>>
  /\ LastTriple.action = "param_item"
  /\ LastTriple.groups[1] = <<"W","I","D","T","H">>
  /\ Len(Generics) = 1
  /\ Generics[1].default_value = <<"8">>

\* the members of a set of indices in increasing order
SortedSeq(S) ==
  [n \in 1..Cardinality(S) |-> CHOOSE i \in S : Cardinality({j \in S : j <= i}) = n]

\* the index in emitted of the k-th module-open, and of the k-th end_module
\* (past the end of emitted while the k-th module is open)
OpenIdx(k) == SortedSeq(Indices("module"))[k]

CloseIdx(k) ==
  IF k <= Count("end_module") THEN SortedSeq(Indices("end_module"))[k]
  ELSE Len(emitted) + 1

\* the submodules list of the k-th module of the call
SubmodulesOf(k) ==
  heap.subs[IF k <= Len(Objects) THEN Objects[k].submodules ELSE b.submodules]

\* the submodule-close triples inside the k-th module, in order
ClosesIn(k) ==
  SortedSeq({j \in Indices("end_submodule") : OpenIdx(k) < j /\ j < CloseIdx(k)})

\* the instantiation closed by the triple at j: its opening triple (of
\* either form) and the instance name the text gave it
OpeningOf(j) ==
  SetMax({s \in Indices("submodule_start") \cup Indices("submodule_param_start") : s < j})

InstanceNameOf(j) ==
  LET s == OpeningOf(j)
      E == {e \in Indices("submodule_param_end") : s < e /\ e < j}
  IN IF emitted[s].action = "submodule_start" THEN emitted[s].groups[2]
     ELSE IF E = {} THEN None
     ELSE emitted[SetMax(E)].groups[1]

\* C10: the submodule list of every module holds one record per
\* instantiation closed inside that module, in instantiation order, with the
\* captured module type and instance name; the plain form and the
\* parameterized form with its instance name both give a record with the two
\* fields set.
C10_SubmodulesInOrder ==
  \A k \in 1..Count("module") :
     LET closes == ClosesIn(k)
         subs == SubmodulesOf(k)
     IN /\ Len(subs) = Len(closes)
        /\ \A n \in 1..Len(subs) :
              /\ subs[n].module_type = emitted[OpeningOf(closes[n])].groups[1]
              /\ subs[n].instance_name = InstanceNameOf(closes[n])
              /\ subs[n].module_type # None
              /\ (\/ emitted[OpeningOf(closes[n])].action = "submodule_start"
                  \/ \E e \in Indices("submodule_param_end") :
                        OpeningOf(closes[n]) < e /\ e < closes[n])
                 => subs[n].instance_name # None

\* a module returned with a plain instantiation followed by a parameterized one
C10_Witness ==
  /\ status = "done"
  /\ Len(Outcome.value) = 1
  /\ LET s == Outcome.value[1].submodules
     IN /\ Len(s) = 2
        /\ s[1].module_type = <<"o","t","h","é","r">> /\ s[1].instance_name = <<"u">>
        /\ s[2].module_type = <<"s","u","b","_","m","o","d","u","l","e">> /\ s[2].instance_name = <<"i","n","s","t","a","n","c","e","2">>
        /\ emitted[OpeningOf(ClosesIn(1)[2])].action = "submodule_param_start"


---------------------------------------------------------------------------
(* Submodule connections *)

\* the named connection .clk(clk) is written in the instantiation closed by
\* the triple at j: the text `.clk(clk` stands between the opening of the
\* instantiation and its closing `);`, and the `)` of the close ends it
ConnectionWritten(j) ==
  /\ Lit(text, emitted[j].pos - 8, <<".","c","l","k","(","c","l","k">>)
  /\ emitted[OpeningOf(j)].pos <= emitted[j].pos - 8

\* C11: the connection mapping of a finalized submodule has, for every named
\* connection .name(expr) written in its instantiation body, an entry from
\* the formal name to the connection expression verbatim.
C11_ConnectionsRecorded ==
  \A k \in 1..Count("module") :
     LET closes == ClosesIn(k)
         subs == SubmodulesOf(k)
     IN \A n \in 1..Len(subs) :
           ConnectionWritten(closes[n]) =>
              \E i \in 1..Len(subs[n].port_connections) :
                 /\ subs[n].port_connections[i].key = <<"c","l","k">>
                 /\ subs[n].port_connections[i].val = <<"c","l","k">>

---------------------------------------------------------------------------
(* Line comments and descriptions *)

\* line comments before a module, after its opening and after its ports, and
\* a section marker
DocChunks ==
  { <<"/","/","#"," ","d","\n">>, <<"/","/","#"," ","{","{","A","}","}","\n">>, <<"m","o","d","u","l","e"," ","m"," ">>, <<"i","n","p","u","t"," ","c","l","k",",">>, <<"o","u","t","p","u","t"," ","q">>,
    <<";","e","n","d","m","o","d","u","l","e">> }

DocTexts == Texts(DocChunks, MaxChunks)

InitDoc == Start(DocTexts)

SpecDoc == InitDoc /\ [][Next]_vars

\* the readings of the line comment that stands at offset p as a
\* description: its text after the `//`, its text after the `//#` marker,
\* each as written or stripped
DescriptionsOf(p) ==
  LET c == re_line_comment(text, p)
      m == re_metacomment(text, p)
          raw == Sub(text, p + 2, c.end - 1)
  IN {raw, Strip(raw)} \cup
     (IF m = NoMatch THEN {} ELSE {m.groups[1], Strip(m.groups[1])})

\* the ports of the k-th module of the call
PortsOf(k) ==
  IF k <= Len(Objects) THEN [i \in 1..Len(Objects[k].ports) |-> heap.ports[Objects[k].ports[i]]]
  ELSE [i \in 1..Len(b.ports) |-> heap.ports[b.ports[i].val]]

\* the offset after the port item of the triple at j
ItemEnd(j) == re_port_param(text, emitted[j].pos).end

\* C12: a line comment (other than a section marker) immediately following a port declaration is that
\* port's description in the finalized module, and a line comment that
\* stands before any port of a fresh module (right before its module
\* keyword or right after its opening) is in the module's description.
C12_CommentsDescribe ==
  \A k \in 1..Len(Objects) :
     /\ \A j \in Indices("port_param") :
           (/\ OpenIdx(k) < j /\ j < CloseIdx(k)
            /\ re_line_comment(text, ItemEnd(j)) # NoMatch
            /\ re_section_meta(text, ItemEnd(j)) = NoMatch)
           => \E i \in 1..Len(PortsOf(k)) :
                 /\ PortsOf(k)[i].name = emitted[j].groups[1]
                 /\ PortsOf(k)[i].desc \in DescriptionsOf(ItemEnd(j))
     /\ \A p \in 0..Len(text) :
           (/\ re_line_comment(text, p) # NoMatch
            /\ re_section_meta(text, p) = NoMatch
            /\ \/ re_line_comment(text, p).end = emitted[OpenIdx(k)].pos
               \/ re_module(text, emitted[OpenIdx(k)].pos).end = p)
           => Objects[k].desc \in DescriptionsOf(p)

---------------------------------------------------------------------------
(* Sections *)

\* the offsets of the section markers written inside the k-th module, in order
MarkersIn(k) ==
  SortedSeq({p \in 0..Len(text) :
               /\ re_section_meta(text, p) # NoMatch
               /\ emitted[OpenIdx(k)].pos < p
               /\ p < emitted[CloseIdx(k)].pos})

\* the names of the port items of the text between offsets lo and hi
PortsBetween(lo, hi) ==
  LET items == SortedSeq({j \in Indices("port_param") :
                            lo < emitted[j].pos /\ emitted[j].pos < hi})
  IN [n \in 1..Len(items) |-> emitted[items[n]].groups[1]]

\* the names of the port items that follow the n-th section marker of the
\* k-th module, up to its next marker or its end
RunAfter(k, n) ==
  LET marks == MarkersIn(k)
  IN PortsBetween(marks[n], IF n < Len(marks) THEN marks[n + 1]
                            ELSE emitted[CloseIdx(k)].pos)

\* C13: in a finalized module each section marker followed by a port maps
\* its label to the contiguous run of ports declared from the marker up to
\* the next marker or the end of the module.
C13_SectionsPartitionPorts ==
  \A k \in 1..Len(Objects) :
     LET marks == MarkersIn(k)
         sections == Objects[k].sections
     IN \A n \in 1..Len(marks) :
           RunAfter(k, n) # <<>> =>
              \E i \in 1..Len(sections) :
                 /\ sections[i].key = re_section_meta(text, marks[n]).groups[1]
                 /\ sections[i].val = RunAfter(k, n)

---------------------------------------------------------------------------
(* Finalized modules *)

\* C14: once the end_module of a module has been processed, no later step
\* of the parse changes what a caller reads from the module's record: its
\* ports and their fields, its parameters, its sections, its submodules and
\* its description stay as they were.
C14_FinalizedModulesFrozen ==
  [][\A k \in 1..Len(Objects) :
        ModuleView(heap.objs[b.objects][k], heap)
          = ModuleView(heap'.objs[b.objects][k], heap')]_vars

\* after module m was finalized with its one parameter, a second module was
\* opened and declared a parameter of its own: the record of m still has the
\* one parameter, in a list that is not the list of the second module
C14_Witness ==
  /\ Len(Objects) = 1
  /\ Count("module") = 2
  /\ LastTriple.action = "param_item_with_value"
  /\ Objects[1].generics # b.generics
  /\ Len(heap.gens[Objects[1].generics]) = 1
  /\ heap.gens[Objects[1].generics][1].name = <<"W","I","D","T","H">>
  /\ Len(heap.gens[b.generics]) = 1
  /\ heap.gens[b.generics][1].name = <<"A","D","D","R">>

---------------------------------------------------------------------------
(* Port order *)

\* the values of sequence s without those that stand earlier in s
FirstOccurrences(s) ==
  LET keep == SortedSeq({i \in 1..Len(s) : \A j \in 1..(i - 1) : s[j] # s[i]})
  IN [n \in 1..Len(keep) |-> s[keep[n]]]

\* the names of the port items of the k-th module, in the order they stand
DeclaredPorts(k) ==
  PortsBetween(emitted[OpenIdx(k)].pos,
               IF k <= Count("end_module") THEN emitted[CloseIdx(k)].pos ELSE Len(text))

\* C15: in every finalized module the port names are pairwise distinct, and
\* the ports stand in the order in which their names were first declared,
\* also when a name is declared again later in the module.
C15_PortsInDeclarationOrder ==
  \A k \in 1..Len(Objects) :
     LET names == [i \in 1..Len(PortsOf(k)) |-> PortsOf(k)[i].name]
     IN /\ \A i, j \in 1..Len(names) : names[i] = names[j] => i = j
        /\ names = FirstOccurrences(DeclaredPorts(k))

\* a module was returned whose first port was declared again after its second
C15_Witness ==
  /\ status = "done"
  /\ Len(Outcome.value) = 1
  /\ DeclaredPorts(1) = << <<"c","l","k">>, <<"d","a","t","a">>, <<"c","l","k">> >>
  /\ Len(Outcome.value[1].ports) = 2
  /\ Outcome.value[1].ports[1].name = <<"c","l","k">>
  /\ Outcome.value[1].ports[2].name = <<"d","a","t","a">>

---------------------------------------------------------------------------
(* The item a metacomment describes *)

\* C17: after every module-open, and until the module declares a port, the
\* `last_item` of the builder is empty (None), so that a metacomment is
\* buffered for the description of the module and does not go to the last
\* port of the module before.
C17_LastItemResetAtModuleOpen ==
  (emitted # <<>> /\ LastTriple.action = "module") => b.last_item = 0

---------------------------------------------------------------------------
(* Metacomments *)

\* C18: a metacomment arrives where the rules of the root state are tried,
\* the only state whose rules have one: outside every module, so that the
\* module to come has no port and no parameter yet. The step that consumes
\* the metacomment appends its text to the pending description lines, and no
\* entity changes.
C18_MetacommentAttaches ==
  [][(/\ status = "running"
      /\ pos < Len(text)
      /\ Top(stack) = "root"
      /\ re_metacomment(text, pos) # NoMatch)
     => /\ b' = [b EXCEPT !.metacomments =
                            Append(@, re_metacomment(text, pos).groups[1])]
        /\ heap' = heap
    ]_vars

---------------------------------------------------------------------------
(* Sections at the module close *)

\* the index of the break-point of the n-th section marker of the k-th
\* module: the number of port items of the module that stand before it
MarkerIndex(k, n) == Len(PortsBetween(emitted[OpenIdx(k)].pos, MarkersIn(k)[n]))

\* the label of the n-th section marker of the k-th module
MarkerLabel(k, n) == re_section_meta(text, MarkersIn(k)[n]).groups[1]

\* C19: in a finalized module, the break-point of a section marker (the only
\* one with its label) whose index is at or beyond the number of ports of
\* the module has no entry in the module's sections, and every other one
\* maps its label to the ports from the previous break-point's index (0 for
\* the first) up to, not including, its own.
C19_BreakPointsResolved ==
  \A k \in 1..Len(Objects) :
     LET sections_dict == Objects[k].sections
         names == [i \in 1..Len(PortsOf(k)) |-> PortsOf(k)[i].name]
     IN \A n \in 1..Len(MarkersIn(k)) :
          (\A o \in 1..Len(MarkersIn(k)) : MarkerLabel(k, o) = MarkerLabel(k, n) => o = n)
          => IF MarkerIndex(k, n) >= Len(names)
             THEN \A e \in 1..Len(sections_dict) : sections_dict[e].key # MarkerLabel(k, n)
             ELSE \E e \in 1..Len(sections_dict) :
                    /\ sections_dict[e].key = MarkerLabel(k, n)
                    /\ sections_dict[e].val
                         = PySlice(names, IF n = 1 THEN 0 ELSE MarkerIndex(k, n - 1),
                                   MarkerIndex(k, n))

---------------------------------------------------------------------------
(* parse_verilog as a function of the text, and VerilogExtractor *)

\* the loop body for the triple of match m, on locals and heap of c
loop_body(c, m) ==
  IF m.action = "None" THEN [b |-> c.b, h |-> c.h]
  ELSE Handle(c.b, c.h, m.action, m.groups)

\* the configuration (cursor, stack, locals, heap) after match m and the
\* result r of the loop body for it
after_match(c, m, r) ==
  [c EXCEPT !.pos = m.end, !.stack = Transition(c.stack, m.new_state),
            !.b = r.b, !.h = r.h]

\* configuration c after the scan at its cursor gave m: the character
\* stepped over when no rule matched, else the match handled
after_scan(c, m) ==
  IF m.rule = 0
  THEN [c EXCEPT !.pos = NoRule(c.pos)]
  ELSE after_match(c, m, loop_body(c, m))

\* one turn of the loop `for pos, action, groups in lex.run(text)`
loop_turn(t, c) == after_scan(c, Scan(t, c.pos, c.stack))

\* what parse_verilog gives at the end of the loop in configuration c
loop_end(c) == [status |-> "done", objects |-> c.b.objects, h |-> c.h]

\* at most n turns of the loop from configuration c: the run is exhausted
\* when the cursor is at the end of the text, and every turn moves the cursor
RECURSIVE loop_turns(_, _, _)
loop_turns(t, c, n) ==
  IF n = 0 \/ c.pos = Len(t) THEN c
  ELSE IF n = 1 THEN loop_turn(t, c)
  ELSE loop_turns(t, loop_turns(t, c, n \div 2), n - (n \div 2))

\* the loop from configuration c up to `return objects`: a turn moves the
\* cursor by one character at least, so Len(t) turns exhaust the run
run_loop(t, c) == loop_end(loop_turns(t, c, Len(t)))

\* the configuration at the entry of parse_verilog with locals and heap i
entry(i) == [pos |-> RunPos, stack |-> RunStack, b |-> i.b, h |-> i.h]

\* parse_verilog(text) on heap h
parse_verilog(t, h) == run_loop(t, entry(InitLocals(h)))

\* d[k]
DictGet(d, k) == d[CHOOSE i \in 1..Len(d) : d[i].key = k].val

\* the classes a caller may pass as type_filter; "None" is no filter
TypeFilters == {"None", "VerilogModule", "VerilogPort"}

\* isinstance(o, cls) for an element o of a list parse_verilog returns
IsInstance(o, cls) == cls \in {"VerilogModule", "VerilogObject"}

\* if type_filter: objects = [o for o in objects if isinstance(o, type_filter)]
FilterObjects(objects, type_filter, h) ==
  IF type_filter = "None" THEN [objects |-> objects, h |-> h]
  ELSE [objects |-> Len(h.objs) + 1,
        h |-> [h EXCEPT !.objs = Append(@, SelectSeq(h.objs[objects],
                                           LAMBDA o : IsInstance(o, type_filter)))]]

\* the return of a call: the list given to the caller after the filter f
returned(parsed, cache, f) ==
  [status |-> "done", parsed |-> parsed, cache |-> cache, objects |-> f.objects,
   h |-> f.h]

\* lines 373-379 that store the filtered list in the cache
parsed_objects_stores_filtered(cache, fname, type_filter, r) ==
  returned(TRUE,
           DictSet(cache, fname, FilterObjects(r.objects, type_filter, r.h).objects),
           FilterObjects(r.objects, type_filter, r.h))

\* extract_objects on a path not in the cache, r being what parse_verilog
\* gave for the file: the whole list is stored, then the filter is applied
parsed_objects(cache, fname, type_filter, r) ==
  returned(TRUE, DictSet(cache, fname, r.objects),
           FilterObjects(r.objects, type_filter, r.h))

\* VerilogExtractor.extract_objects(fname, type_filter) with object_cache
\* cache and files fs: the new cache, the returned list and whether
\* parse_verilog was called
extract_objects(cache, fs, h, fname, type_filter) ==
  IF DictHas(cache, fname)
  THEN returned(FALSE, cache, FilterObjects(DictGet(cache, fname), type_filter, h))
  ELSE parsed_objects(cache, fname, type_filter, parse_verilog(DictGet(fs, fname), h))

\* extract_objects_from_source after parse_verilog gave r
source_objects(cache, type_filter, r) ==
  returned(TRUE, cache, FilterObjects(r.objects, type_filter, r.h))

\* VerilogExtractor.extract_objects_from_source(text, type_filter)
extract_objects_from_source(cache, fs, h, t, type_filter) ==
  source_objects(cache, type_filter, parse_verilog(t, h))

MaxExtract == 3

\* the texts of the files (one module, two modules, a module that is never
\* closed) and SourceTexts, those of the buffers handed to the extractor
OneModule == <<"m","o","d","u","l","e"," ","a"," ","e","n","d","m","o","d","u","l","e">>

TwoModules == <<"m","o","d","u","l","e"," ","a"," ","i","n","p","u","t"," ","x",";","e","n","d","m","o","d","u","l","e","/","/","c","\n","m","o","d","u","l","e"," ","b","\n","e","n","d","m","o","d","u","l","e">>

OpenModule == <<"m","o","d","u","l","e"," ","a"," ","x">>

SourceTexts == {TwoModules, OpenModule}

\* a new VerilogExtractor (object_cache = {}) and two files
InitExtract ==
  /\ text = <<>>
  /\ call = 1
  /\ status = "running"
  /\ pos = RunPos
  /\ stack = RunStack
  /\ b = InitLocals(EmptyHeap).b
  /\ heap = InitLocals(EmptyHeap).h
  /\ emitted = <<>>
  /\ result = <<>>
  /\ first = <<>>
  /\ object_cache = <<>>
  /\ \E t \in {OneModule, OpenModule} :
        files = << [key |-> "a.v", val |-> TwoModules], [key |-> "b.v", val |-> t] >>
  /\ calls = <<>>

\* what a call did, as the caller and the ghost variable `calls` see it
CallRecord(op, arg, type_filter, r) ==
  [op |-> op, arg |-> arg, type_filter |-> type_filter, parsed |-> r.parsed,
   status |-> r.status, objects |-> r.objects]

ExtractObjects ==
  /\ Len(calls) < MaxExtract
  /\ \E i \in 1..Len(files), type_filter \in TypeFilters :
       \E r \in {extract_objects(object_cache, files, heap, files[i].key, type_filter)} :
       /\ object_cache' = r.cache
       /\ heap' = r.h
       /\ calls' = Append(calls, CallRecord("extract_objects", files[i].key, type_filter, r))
  /\ UNCHANGED <<text, call, status, pos, stack, b, emitted, result, first, files>>

ExtractObjectsFromSource ==
  /\ Len(calls) < MaxExtract
  /\ \E t \in SourceTexts, type_filter \in TypeFilters :
       \E r \in {extract_objects_from_source(object_cache, files, heap, t, type_filter)} :
       /\ object_cache' = r.cache
       /\ heap' = r.h
       /\ calls' = Append(calls, CallRecord("extract_objects_from_source", t, type_filter, r))
  /\ UNCHANGED <<text, call, status, pos, stack, b, emitted, result, first, files>>

NextExtract == ExtractObjects \/ ExtractObjectsFromSource

SpecExtract == InitExtract /\ [][NextExtract]_vars

\* the list parse_verilog returns for text t, with every reference followed
ParsedView(r) == [status |-> r.status, value |-> ListView(r.objects, r.h)]

ParseView(t) == ParsedView(parse_verilog(t, EmptyHeap))

\* the list a call returned, filtered as the call asked
ReturnedView(c, h) == ListView(c.objects, h)

FilterView(v, type_filter) ==
  IF type_filter = "None" THEN v ELSE SelectSeq(v, LAMBDA o : IsInstance(o, type_filter))

\* C16: extract_objects_from_source leaves object_cache as it is and returns
\* what parse_verilog gives for the text, whatever the cache holds;
\* extract_objects on a path not in the cache parses the file and stores the
\* whole list of its modules under the path; on a path in the cache it
\* returns the stored list without parsing and leaves the cache as it is.
C16_CacheWholeFiles ==
  [][Len(calls') = Len(calls) + 1 =>
       LET c == calls'[Len(calls')]
           hit == DictHas(object_cache, c.arg)
       IN /\ c.op = "extract_objects_from_source" =>
               /\ object_cache' = object_cache
               /\ c.parsed
               /\ c.status = ParseView(c.arg).status
               /\ ReturnedView(c, heap') = FilterView(ParseView(c.arg).value, c.type_filter)
          /\ (c.op = "extract_objects" /\ ~hit) =>
               /\ c.parsed
               /\ c.status = ParseView(DictGet(files, c.arg)).status
               /\ DictKeys(object_cache') = Append(DictKeys(object_cache), c.arg)
               /\ \A i \in 1..Len(object_cache) : object_cache'[i] = object_cache[i]
               /\ ListView(DictGet(object_cache', c.arg), heap')
                    = ParseView(DictGet(files, c.arg)).value
               /\ ReturnedView(c, heap')
                    = FilterView(ParseView(DictGet(files, c.arg)).value, c.type_filter)
          /\ (c.op = "extract_objects" /\ hit) =>
               /\ ~c.parsed
               /\ object_cache' = object_cache
               /\ c.status = "done"
               /\ c.type_filter = "None" => c.objects = DictGet(object_cache, c.arg)
               /\ ReturnedView(c, heap')
                    = FilterView(ListView(DictGet(object_cache, c.arg), heap), c.type_filter)
               /\ ListView(DictGet(object_cache, c.arg), heap')
                    = ListView(DictGet(object_cache, c.arg), heap)
  ]_vars

\* a.v was parsed and cached with its two modules under a filter that keeps
\* none of them, a raw text was parsed next, and a.v was then served from the
\* cache
C16_Witness ==
  /\ Len(calls) = 3
  /\ calls[1].op = "extract_objects" /\ calls[1].arg = "a.v" /\ calls[1].parsed
  /\ calls[1].type_filter = "VerilogPort"
  /\ calls[2].op = "extract_objects_from_source" /\ calls[2].arg = TwoModules
  /\ calls[3].op = "extract_objects" /\ calls[3].arg = "a.v" /\ ~calls[3].parsed
  /\ calls[3].type_filter = "None"
  /\ Len(ListView(calls[3].objects, heap)) = 2
  /\ DictKeys(object_cache) = <<"a.v">>

---------------------------------------------------------------------------
(* Block comments *)

\* a text that leaves the lexer in each of its states but the comment state
CommentHeads ==
  { <<>>, <<"m","o","d","u","l","e"," ","m"," ">>, <<"m","o","d","u","l","e"," ","m"," ","p","a","r","a","m","e","t","e","r"," ">>, <<"m","o","d","u","l","e"," ","m"," ","i","n","p","u","t"," ","x">>,
    <<"m","o","d","u","l","e"," ","m"," ","s"," ","#","(">>, <<"m","o","d","u","l","e"," ","m"," ","s"," ","i"," ","(">> }

\* block comments, an identifier and the ends of a module
CommentChunks ==
  { <<"/","*">>, <<" ","*","/">>, <<"y">>, <<";","e","n","d","m","o","d","u","l","e">>, <<")",";","e","n","d","m","o","d","u","l","e">> }

CommentTexts ==
  { head \o body : head \in CommentHeads, body \in Texts(CommentChunks, MaxChunks) }

InitComment == Start(CommentTexts)

SpecComment == InitComment /\ [][Next]_vars

\* the offsets of the text that lie in a block comment: from each
\* block-comment-open to the end of its terminator (to the end of the text
\* when the run has not matched one)
InComment ==
  {p \in 0..(Len(text) - 1) :
     \E i \in Indices("block_comment") :
        /\ emitted[i].pos <= p
        /\ p < (IF i < Len(emitted) /\ emitted[i + 1].action = "end_comment"
                THEN re_end_comment(text, emitted[i + 1].pos).end
                ELSE Len(text))}

\* the text with its block comments taken out
WithoutComments ==
  LET kept == SortedSeq((0..(Len(text) - 1)) \ InComment)
  IN [n \in 1..Len(kept) |-> text[kept[n] + 1]]

\* C20 (as claimed): a parse that met block comments returns the module list
\* that parse_verilog returns for the text without the comments.
C20_SameAsWithoutComments ==
  (status = "done" /\ Count("block_comment") > 0
     /\ Count("end_comment") = Count("block_comment"))
  => ParseView(WithoutComments) = Outcome

\* C20 (amended): in every state but the comment state a block-comment-open
\* at the cursor is matched, emits block_comment and pushes the comment state
\* on the stack as it is; the terminator emits end_comment and pops that one
\* entry, so the stack is again the one the comment was opened in; neither
\* step changes a local of the builder or a record.
C20_CommentsPushAndPop ==
  [][/\ (/\ status = "running"
         /\ pos < Len(text)
         /\ Top(stack) # "block_comment"
         /\ re_block_comment(text, pos) # NoMatch)
        => /\ emitted' = Append(emitted, [pos |-> pos, action |-> "block_comment",
                                          groups |-> <<>>])
           /\ stack' = Append(stack, "block_comment")
           /\ pos' = pos + 2
           /\ b' = b /\ heap' = heap
     /\ (/\ Len(emitted') = Len(emitted) + 1
         /\ emitted'[Len(emitted')].action = "end_comment")
        => /\ stack = Append(stack', "block_comment")
           /\ \E i \in 1..Len(emitted) :
                /\ emitted[i].action = "block_comment"
                /\ \A j \in (i + 1)..Len(emitted) : emitted[j].action # "end_comment"
                /\ \A j \in (i + 1)..Len(emitted) : emitted[j].action # "block_comment"
           /\ b' = b /\ heap' = heap
    ]_vars

\* a comment opened after port x in the port list has been closed: the lexer
\* is back in the port list within the module, port x is still the only port,
\* and the next port is declared after the comment
C20_Witness ==
  /\ Count("block_comment") = 1
  /\ Count("end_comment") = 1
  /\ emitted[Len(emitted) - 1].action = "end_comment"
  /\ LastTriple.action = "port_param"
  /\ stack = <<"root", "module", "module_port">>
  /\ DictKeys(b.ports) = << <<"x">>, <<"y">> >>

---------------------------------------------------------------------------
(* Actions that arrive with no submodule in progress *)

SubmoduleOpens == {"submodule_start", "submodule_param_start"}

\* a submodule is in progress before the triple at j: one was opened and no
\* end_submodule came between its opening and j
InProgressBefore(j) ==
  \E i \in 1..(j - 1) :
     /\ emitted[i].action \in SubmoduleOpens
     /\ \A n \in (i + 1)..(j - 1) : emitted[n].action # "end_submodule"

\* the triples the builder cannot apply: a submodule close or an instance
\* name that arrives while no submodule is in progress
Inapplicable ==
  {j \in 1..Len(emitted) :
     /\ emitted[j].action \in {"end_submodule", "submodule_param_end"}
     /\ ~InProgressBefore(j)}

\* C21: no submodule-close and no instance-name action arrives while no
\* submodule is in progress, and an instance name that arrives is given to
\* the submodule in progress: no parse has such an action to fail on, and
\* none drops one silently.
C21_NoInapplicableAction ==
  /\ Inapplicable = {}
  /\ (emitted # <<>> /\ LastTriple.action = "submodule_param_end")
       => /\ b.current_submodule # <<>>
          /\ b.current_submodule[1].instance_name = LastTriple.groups[1]

\* a module returned with its one submodule: the instance name and the close
\* arrived with the submodule in progress, and the second `);` of the text,
\* which stands where no submodule is in progress, gave no action
C21_Witness ==
  /\ status = "done"
  /\ Count("submodule_param_start") = 1
  /\ Count("submodule_param_end") = 1
  /\ Count("end_submodule") = 1
  /\ \E j \in Indices("end_submodule") :
        Lit(text, re_end_submodule(text, emitted[j].pos).end, <<")",";">>)
  /\ Len(Outcome.value) = 1
  /\ Len(Outcome.value[1].submodules) = 1
  /\ Outcome.value[1].submodules[1].instance_name = <<"i","n","s","t","a","n","c","e","2">>

---------------------------------------------------------------------------
(* Submodules and the module they belong to *)

\* the number of the module inside which the triple at j arrived: the
\* module-opens up to j (0 before the first)
ModuleAt(j) == Cardinality({i \in Indices("module") : i < j})

\* the references to the submodules lists of the modules of the call: the
\* finalized ones, then the one of the module that is open, if any
SubmoduleLists ==
  [k \in 1..Count("module") |->
     IF k <= Len(Objects) THEN Objects[k].submodules ELSE b.submodules]

\* C22: the modules have submodules lists of their own; between the opening
\* of a submodule and its close no other submodule is opened; a submodule
\* close appends one record, that of the submodule in progress, to the list
\* of the module inside which it was opened, which is the module that is
\* open, and to no other list; no other step changes a submodules list. So
\* every record is once in the list of exactly one module.
C22_SubmoduleInOneModule ==
  /\ [](/\ \A k1, k2 \in 1..Count("module") :
             SubmoduleLists[k1] = SubmoduleLists[k2] => k1 = k2
        /\ \A s1, s2 \in Indices("submodule_start") \cup Indices("submodule_param_start") :
             s1 < s2 => \E e \in Indices("end_submodule") : s1 < e /\ e < s2
        /\ \A k \in 1..Count("module") :
             Len(heap.subs[SubmoduleLists[k]]) = Len(ClosesIn(k)))
  /\ [][IF Len(emitted') = Len(emitted) + 1
           /\ emitted'[Len(emitted')].action = "end_submodule"
        THEN /\ InProgressBefore(Len(emitted) + 1)
             /\ LET s == OpeningOf(Len(emitted) + 1) IN
                /\ ModuleAt(s) = Count("module")
                /\ Count("end_module") < Count("module")
                /\ b.current_submodule # <<>>
                /\ b.current_submodule[1].module_type = emitted[s].groups[1]
                /\ heap'.subs = [heap.subs EXCEPT ![b.submodules] =
                                   Append(@, b.current_submodule[1])]
                /\ b'.current_submodule = <<>>
        ELSE \A r \in 1..Len(heap.subs) : heap'.subs[r] = heap.subs[r]
       ]_vars

\* two modules returned, each with the one submodule that was opened and
\* closed inside it
C22_Witness ==
  /\ status = "done"
  /\ Len(Outcome.value) = 2
  /\ Len(Outcome.value[1].submodules) = 1
  /\ Len(Outcome.value[2].submodules) = 1
  /\ Outcome.value[1].submodules[1].instance_name = <<"i","n","s","t","a","n","c","e","1">>
  /\ Outcome.value[2].submodules[1].instance_name = <<"u">>
  /\ ModuleAt(OpeningOf(ClosesIn(1)[1])) = 1
  /\ ModuleAt(OpeningOf(ClosesIn(2)[1])) = 2

---------------------------------------------------------------------------
(* Termination of the scan *)

MaxTermChunks == 3

\* texts that leave the lexer in the root, parameters and submodule_params
\* states
TermHeads == { <<>>, <<"m","o","d","u","l","e"," ","m"," ","p","a","r","a","m","e","t","e","r"," ">>, <<"m","o","d","u","l","e"," ","m"," ","s"," ","#","(">> }

\* a parameter item, an instance name, a close and a line comment
TermChunks == { <<"W"," ","="," ","8",",">>, <<")"," ","i"," ","(">>, <<")",";">>, <<"/","/","c","\n">> }

TermTexts ==
  { head \o body : head \in TermHeads, body \in Texts(TermChunks, MaxTermChunks) }

InitTerm == Start(TermTexts)

\* the loop of parse_verilog runs on until the run is exhausted
SpecTerm == InitTerm /\ [][Next]_vars /\ WF_vars(Next)

LexerStates == DOMAIN verilog_tokens

\* C23: whatever the state, a rule that matches at the cursor ends beyond
\* it; so every turn of the scan, a committed match or a character stepped
\* over, moves the cursor forward and adds at most one triple, the triples
\* are never more than the characters scanned, and the scan ends, exhausted
\* at the end of the text.
C23_ScanTerminates ==
  /\ [](/\ \A s \in LexerStates :
             \A i \in 1..Len(verilog_tokens[s]) :
                Match(verilog_tokens[s][i].pat, text, pos).end # -1
                  => Match(verilog_tokens[s][i].pat, text, pos).end > pos
        /\ Len(emitted) <= pos
        /\ pos <= Len(text))
  /\ [][(status = "running" /\ status' = "running")
          => /\ pos' > pos
             /\ Len(emitted') \in {Len(emitted), Len(emitted) + 1}]_vars
  /\ [][status' # "running"
          => /\ pos' = pos
             /\ emitted' = emitted
             /\ pos = Len(text)
             /\ status' = "done"]_vars
  /\ <>(status = "done")

\* a scan that went through a parameterized instantiation and a line comment
\* and is exhausted at the end of the text
C23_Witness ==
  /\ status = "done"
  /\ pos = Len(text)
  /\ Count("end_submodule") = 1
  /\ Count("submodule_param_end") = 1
  /\ Len(text) > Len(<<"m","o","d","u","l","e"," ","m"," ","s"," ","#","(",")"," ","i"," ","(",")",";">>)

---------------------------------------------------------------------------
(* Rules that can win the scan *)

\* for each rule with an action, a text that its pattern matches at offset 0
ProbeTexts ==
  { <<"/","*">>, <<" ","*","/">>, <<"/","/","#"," ","d","\n">>, <<"/","/","#"," ","{","{","A","}","}","\n">>, <<"m","o","d","u","l","e"," ","m"," ">>,
    <<"e","n","d","m","o","d","u","l","e">>, <<"p","a","r","a","m","e","t","e","r"," ","[","7",":","0","]"," ">>, <<"i","n","p","u","t"," ","w","i","r","e"," ","x",",">>, <<"x",",">>,
    <<"s"," ","#","(">>, <<"s"," ","i"," ","(">>, <<"W"," ","="," ","8">>, <<"W"," ","x">>, <<")"," ","i"," ","(">>, <<")",";">> }

\* rule i of state s is the first rule of s that matches, at some offset of
\* some probe text or of the text of the run
CanWin(s, i) ==
  \E t \in ProbeTexts \cup {text} :
     \E p \in 0..(Len(t) - 1) : FirstMatch(verilog_tokens[s], 1, t, p).rule = i

\* the rules that have an action, as pairs of state and place in the list
ActionRules ==
  {r \in LexerStates \X (1..10) :
     /\ r[2] <= Len(verilog_tokens[r[1]])
     /\ verilog_tokens[r[1]][r[2]].action # "None"}

\* C24: every rule of the table that has an action is, for some text (a
\* probe text or the text of the run, at any offset), the first rule of its
\* state that matches.
C24_EveryActionRuleCanWin == \A r \in ActionRules : CanWin(r[1], r[2])

---------------------------------------------------------------------------
(* The break-point counter *)

\* C25: while a module is open, the counter recorded as the index of a
\* section break-point equals the number of ports in the module's port map,
\* and every break-point recorded is a position of the port list.
C25_IndexCountsPorts ==
  Count("end_module") < Count("module") =>
    /\ b.port_param_index = Len(b.ports)
    /\ \A n \in 1..Len(b.sections) : b.sections[n][1] <= Len(b.ports)

---------------------------------------------------------------------------
(* The instance names of the submodules *)

\* C26: every submodule in the list of a finalized module has a module type
\* and an instance name; none was appended while its instance name was None.
C26_SubmodulesAreNamed ==
  \A k \in 1..Len(Objects) :
     \A n \in 1..Len(SubmodulesOf(k)) :
        /\ SubmodulesOf(k)[n].module_type # None
        /\ SubmodulesOf(k)[n].instance_name # None
=============================================================================
